---- MODULE Spec2Model ----
(***************************************************************************)
(* Bean-consumption and stock-ledger engine of the Yellowknife coffee      *)
(* inventory application (src/app.py).                                     *)
(*                                                                         *)
(* The ledger store is a relational database.  Every table is a sequence   *)
(* of rows in insertion order, except green_bean_inventory, which has a    *)
(* UNIQUE(bean_origin, bean_product) key and is a function from the beans  *)
(* that have a row to their current_stock_kg.                              *)
(*                                                                         *)
(* Units.  A bean variety is the pair (origin, product); the pair is one   *)
(* value of Beans.  Quantities are integers in grams: every quantity the   *)
(* forms accept is on the 0.1 kg grid of st.number_input(step=0.1), and    *)
(* round(x, 3) of a quantity in kg is rounding to a whole number of grams. *)
(* On that grid, and with whole-percent ratios, no product the code rounds *)
(* is a tie, so rounding to nearest is what Python's round() returns.      *)
(* Dates are integers; NullDate is SQL NULL, which SQLite orders before    *)
(* every date.  NoDate is the Python None of an omitted argument.          *)
(*                                                                         *)
(* Columns that no handler reads back are left out of the rows: notes,     *)
(* supplier, customer, total_amount, created_at, last_updated, item_type   *)
(* and the transaction_date of a log entry.                                *)
(*                                                                         *)
(* Scope.  One action is one button handler, from its st.button(...) line  *)
(* to the end of its block, with every helper call it makes.  The code     *)
(* that draws the page before a button is reached (tables, selectors,      *)
(* previews) changes no stored state and is not part of the actions.       *)
(* The stock report and the profit report compute while their page is      *)
(* drawn; each is a read-only action of its own.                           *)
(* REAL columns are exact decimals here; binary floating-point drift of    *)
(* repeated additions is not represented.                                  *)
(***************************************************************************)
EXTENDS Integers, Sequences, FiniteSets, TLC

\* ---------------------------------------------------------------- bounds
MaxDate == 2
MaxQty == 2
MaxTx == 5
MaxPurchases == 1
MaxRecipeRows == 4
MaxBoms == 2
MaxHistory == 2
MaxRows == 1
MaxSales == 2
MaxFailures == 1
MaxProducts == 1

\* ------------------------------------------------------------- constants
\* ROASTING_LOSS_RATE = 1.2, as the fraction 12 / 10
ROASTING_LOSS_NUM == 12
ROASTING_LOSS_DEN == 10
\* st.number_input(step=0.1): 0.1 kg = 100 g
QtyStep == 100

NullDate == 0
NoDate == 0 - 1
Null == 0

Beans == {"b1", "b2"}
ProductNames == {"p1", "p2"}
Dates == 1..MaxDate
Quantities == {k * QtyStep : k \in 0..MaxQty}
\* unit prices as typed, VAT included
Prices == {0, 110}
BomNames == {"B1", "B2"}

\* recipe line lists a form can submit (blend_data / new_blend_data)
Line(b, r) == [bean |-> b, blend_ratio |-> r]
BlendInputs ==
  { <<Line("b1", 100)>>,
    <<Line("b1", 70), Line("b2", 30)>>,
    <<Line("b1", 70)>> }

VARIABLES
  green_bean_inventory,    \* bean -> current_stock_kg, for the beans with a row
  inventory_transactions,  \* the stock-transaction log
  green_bean_purchases,    \* rows [id, purchase_date, bean, quantity_kg, unit_price]
  product_sales,           \* rows [id, sale_date, product_name, quantity_kg, unit_price]
  blend_recipes,           \* legacy rows [product_name, bean, blend_ratio, effective_date]
  master_boms,             \* rows [id, bom_name]
  master_bom_recipes,      \* rows [master_bom_id, bean, blend_ratio]
  products,                \* rows [id, product_name, master_bom_id, is_active]
  product_bom_history,     \* rows [product_id, master_bom_id, effective_date]
  sqlite_sequence,         \* AUTOINCREMENT counters, one per table
  sale_consumption,        \* history: sale id -> grams deducted per bean when it was recorded
  failures,                \* history: the handler runs the store has failed in
  sessions,                \* per browser session: the stock update it is inside
  last                     \* the action that ran last and what it reported

vars == << green_bean_inventory, inventory_transactions, green_bean_purchases,
           product_sales, blend_recipes, master_boms, master_bom_recipes,
           products, product_bom_history, sqlite_sequence, sale_consumption,
           failures, sessions, last >>

\* ------------------------------------------------------ sequence helpers
Range(s) == { s[i] : i \in DOMAIN s }

RECURSIVE SumRatio(_)
SumRatio(lines) ==
  IF lines = <<>> THEN 0 ELSE Head(lines).blend_ratio + SumRatio(Tail(lines))

SetMax(S) == CHOOSE x \in S : \A y \in S : y <= x

\* round(n / d) to the nearest integer, ties to even (Python round)
RoundDiv(n, d) ==
  LET q == n \div d
      r == n % d
  IN IF 2 * r > d \/ (2 * r = d /\ q % 2 = 1) THEN q + 1 ELSE q

\* ------------------------------------------------------- stock helpers
\* get_bean_stock: the balance of the bean's row, 0 when it has no row
get_bean_stock(inv, bean) ==
  IF bean \in DOMAIN inv THEN inv[bean] ELSE 0

\* the purchase counted as roasted beans: the change scaled by the loss rate
update_green_bean_inventory_scaled(inv, bean, quantity_change) ==
  LET scaled == RoundDiv(quantity_change * ROASTING_LOSS_NUM, ROASTING_LOSS_DEN)
  IN IF bean \in DOMAIN inv
     THEN [inv EXCEPT ![bean] = @ + scaled]
     ELSE inv @@ (bean :> scaled)

\* update_green_bean_inventory: read the row, then UPDATE it to old + change,
\* or INSERT a row holding the change when the bean has none
update_green_bean_inventory(inv, bean, quantity_change) ==
  IF bean \in DOMAIN inv
  THEN [inv EXCEPT ![bean] = @ + quantity_change]
  ELSE inv @@ (bean :> quantity_change)

\* the log kept as a single latest row: the INSERT replaces what is there
add_inventory_transaction_replacing(tx, transaction_type, bean, quantity_kg, reference_id) ==
  << [transaction_type |-> transaction_type, bean |-> bean,
      quantity_kg |-> quantity_kg, reference_id |-> reference_id] >>

\* add_inventory_transaction: INSERT one row into inventory_transactions
add_inventory_transaction(tx, transaction_type, bean, quantity_kg, reference_id) ==
  Append(tx, [transaction_type |-> transaction_type,
              bean |-> bean,
              quantity_kg |-> quantity_kg,
              reference_id |-> reference_id])

\* round(quantity * ROASTING_LOSS_RATE, 3)
green_bean_needed(quantity) ==
  RoundDiv(quantity * ROASTING_LOSS_NUM, ROASTING_LOSS_DEN)

\* round(green_bean_needed * (ratio / 100), 3)
required_qty(needed, ratio) == RoundDiv(needed * ratio, 100)

\* ------------------------------------------------------- recipe resolver
Raised ==
  [raised |-> TRUE, recipes |-> <<>>, system_type |-> "UnboundLocalError"]
Returned(recipes, system_type) ==
  [raised |-> FALSE, recipes |-> recipes, system_type |-> system_type]

ToLines(rows) ==
  [i \in DOMAIN rows |-> Line(rows[i].bean, rows[i].blend_ratio)]

\* SELECT ... FROM master_bom_recipes WHERE master_bom_id = ?
get_master_bom_recipe(mbr, master_bom_id) ==
  ToLines(SelectSeq(mbr, LAMBDA r : r.master_bom_id = master_bom_id))

\* SELECT id FROM products WHERE product_name = ? AND is_active = 1
product_result(prods, product_name) ==
  { r.id : r \in { x \in Range(prods) :
                     x.product_name = product_name /\ x.is_active } }

\* the ORDER BY of the assignment query forgotten: any row of the product
latest_history_unordered(hist, product_id) ==
  { r \in Range(hist) : r.product_id = product_id }

\* The rows ORDER BY effective_date DESC LIMIT 1 may return: any row of the
\* product with the greatest effective date (SQL leaves the order of ties open)
latest_history(hist, product_id) ==
  LET mine == { r \in Range(hist) : r.product_id = product_id }
  IN { r \in mine : \A o \in mine : o.effective_date <= r.effective_date }

\* the date argument dropped: the call resolves as if no date were given
get_product_bom_undated(prods, hist, mbr, br, product_name, sale_date) ==
  LET all_recipes == SelectSeq(br, LAMBDA r : r.product_name = product_name)
  IN { IF all_recipes # <<>>
       THEN Returned(ToLines(all_recipes), "old_system")
       ELSE Returned(<<>>, "none") }

\* The legacy part of get_product_bom (section 2 of the function).  With a
\* sale date the query is executed but its result is never fetched:
\* all_recipes is assigned only in the else branch, and reading it raises.
legacy_part(br, product_name, sale_date) ==
  IF sale_date # NoDate
  THEN Raised
  ELSE LET all_recipes == SelectSeq(br, LAMBDA r : r.product_name = product_name)
       IN IF all_recipes # <<>>
          THEN LET latest_effective_date ==
                     SetMax({ r.effective_date : r \in Range(all_recipes) })
               IN Returned(ToLines(SelectSeq(all_recipes,
                        LAMBDA r : r.effective_date = latest_effective_date)),
                      "old_system")
          ELSE Returned(<<>>, "none")

\* the call made without its date: what get_product_bom(product_name)
\* returns, the latest assignment's BOM or the latest legacy version
get_product_bom_dateless(prods, hist, mbr, br, product_name, sale_date) ==
  LET pr == product_result(prods, product_name)
      cands == IF pr = {} THEN {}
               ELSE latest_history(hist, CHOOSE i \in pr : TRUE)
  IN IF cands = {}
     THEN { legacy_part(br, product_name, NoDate) }
     ELSE { IF bom_result.master_bom_id # Null
            THEN Returned(get_master_bom_recipe(mbr, bom_result.master_bom_id),
                          "new_system")
            ELSE legacy_part(br, product_name, NoDate)
            : bom_result \in cands }

\* get_product_bom(product_name, sale_date): the set of results the call can
\* have.  With a sale date bom_result is never assigned either (only the
\* else branch fetches), so `if bom_result and bom_result[0]` raises.
get_product_bom(prods, hist, mbr, br, product_name, sale_date) ==
  LET pr == product_result(prods, product_name)
  IN IF pr # {}
     THEN IF sale_date # NoDate
          THEN { Raised }
          ELSE LET product_id == CHOOSE i \in pr : TRUE
                   cands == latest_history(hist, product_id)
               IN IF cands = {}
                  THEN { legacy_part(br, product_name, sale_date) }
                  ELSE { IF bom_result.master_bom_id # Null
                         THEN Returned(get_master_bom_recipe(mbr,
                                         bom_result.master_bom_id),
                                       "new_system")
                         ELSE legacy_part(br, product_name, sale_date)
                         : bom_result \in cands }
     ELSE { legacy_part(br, product_name, sale_date) }

\* ------------------------------------------------------- history record
NoBeans == [b \in Beans |-> 0]
Stock == [b \in Beans |-> get_bean_stock(green_bean_inventory, b)]

\* What the action that ran last reports: its name, the row it worked on (as
\* it was before), whether it ended by an uncaught failure, the messages it
\* showed and, for each input row, the id it was recorded under (0: not
\* recorded).  pre is the stock the action found; it is kept for the sale
\* actions only.
NoRecord == [id |-> 0]
\* of a sale edit: the sale's id, whether the submission repeats the record's
\* product, date and quantity, and whether it repeats its unit price
EditRecord(record, new) ==
  [id |-> record.id,
   same_sale |-> /\ new.product_name = record.product_name
                 /\ new.sale_date = record.sale_date
                 /\ new.quantity_kg = record.quantity_kg,
   same_price |-> new.unit_price = record.unit_price]

Report(op, record, failed, messages, recorded, pre) ==
  [op |-> op, record |-> record, failed |-> failed, messages |-> messages,
   recorded |-> recorded, pre |-> pre]

NoReport == Report("none", NoRecord, FALSE, <<>>, <<>>, NoBeans)

Msg(kind, shortages) == [kind |-> kind, shortages |-> shortages]
RowMsg(idx, kind, shortages) ==
  [idx |-> idx, kind |-> kind, shortages |-> shortages]

\* --------------------------------------------------------------- sessions
\* Streamlit runs the script of every browser session in a thread of its
\* own; each helper call opens its own connection.  A session is either
\* outside update_green_bean_inventory or between its SELECT and its write.
\* applied is history: per bean, the changes of the calls that returned.
Sessions == {"s1", "s2"}

Idle ==
  [pc |-> "idle", bean |-> "", quantity_change |-> 0, found |-> FALSE,
   result |-> 0, calls |-> 0, applied |-> [b \in Beans |-> 0]]

\* ------------------------------------------------------------------ Init
\* The store outlives the program (CREATE TABLE IF NOT EXISTS): the legacy
\* flat recipes can only be edited, never first entered, through the forms,
\* so the store starts with whatever legacy rows and sales it already holds.
\* A sale it holds was recorded against an empty inventory, that is without
\* consumption, so stock balances and the log start empty and consistent.
LegacyRows(product_name, lines, effective_date) ==
  [i \in DOMAIN lines |->
     [product_name |-> product_name, bean |-> lines[i].bean,
      blend_ratio |-> lines[i].blend_ratio, effective_date |-> effective_date]]

SaleRow(id, sale_date, product_name, quantity_kg, unit_price) ==
  [id |-> id, sale_date |-> sale_date, product_name |-> product_name,
   quantity_kg |-> quantity_kg, unit_price |-> unit_price]

InitRecipes ==
  { <<>>,
    LegacyRows("p1", <<Line("b1", 70), Line("b2", 30)>>, NullDate),
    LegacyRows("p1", <<Line("b1", 70), Line("b2", 30)>>, 1)
      \o LegacyRows("p1", <<Line("b1", 100)>>, 2) }

InitSales ==
  { <<>> } \cup
  { << SaleRow(1, 1, "p1", QtyStep, 100) >> }

Init ==
  /\ green_bean_inventory = [b \in {} |-> 0]
  /\ inventory_transactions = <<>>
  /\ green_bean_purchases = <<>>
  /\ product_sales \in InitSales
  /\ blend_recipes \in InitRecipes
  /\ master_boms = <<>>
  /\ master_bom_recipes = <<>>
  /\ products = <<>>
  /\ product_bom_history = <<>>
  /\ sqlite_sequence = [purchases |-> 0, sales |-> Len(product_sales),
                        boms |-> 0, products |-> 0]
  /\ sale_consumption = [i \in { r.id : r \in Range(product_sales) } |-> NoBeans]
  /\ failures = 0
  /\ sessions = [s \in Sessions |-> Idle]
  /\ last = NoReport

\* ------------------------------------------------------------ purchases
PurchaseRow(id, purchase_date, bean, quantity_kg, unit_price) ==
  [id |-> id, purchase_date |-> purchase_date, bean |-> bean,
   quantity_kg |-> quantity_kg, unit_price |-> unit_price]

RecipeTables == << blend_recipes, master_boms, master_bom_recipes, products,
                   product_bom_history >>

\* "생두 매입 등록": INSERT the purchase, then add the quantity to the bean's
\* stock and log it.  bean = "" is an empty origin or product field.
btn_purchase(purchase_date, bean, quantity, unit_price) ==
  /\ IF bean # "" /\ quantity > 0 /\ unit_price > 0
     THEN LET purchase_id == sqlite_sequence.purchases + 1
          IN /\ purchase_id <= MaxPurchases
             /\ Len(inventory_transactions) < MaxTx
             /\ green_bean_purchases' = Append(green_bean_purchases,
                    PurchaseRow(purchase_id, purchase_date, bean, quantity,
                                unit_price))
             /\ sqlite_sequence' = [sqlite_sequence EXCEPT !.purchases = purchase_id]
             /\ green_bean_inventory' =
                    update_green_bean_inventory(green_bean_inventory, bean, quantity)
             /\ inventory_transactions' =
                    add_inventory_transaction(inventory_transactions,
                        "bean_purchase", bean, quantity, purchase_id)
             /\ last' = Report("btn_purchase", NoRecord, FALSE,
                               << Msg("success", <<>>) >>, << purchase_id >>,
                               NoBeans)
     ELSE /\ last' = Report("btn_purchase", NoRecord, FALSE,
                            << Msg("error_required", <<>>) >>, <<>>, NoBeans)
          /\ UNCHANGED << green_bean_purchases, sqlite_sequence,
                          green_bean_inventory, inventory_transactions >>
  /\ UNCHANGED << product_sales, sale_consumption, failures, sessions >>
  /\ UNCHANGED RecipeTables

\* UPDATE ... WHERE id = ? on a table held as a sequence of rows
UpdateRow(rows, id, new) ==
  [i \in DOMAIN rows |-> IF rows[i].id = id THEN new ELSE rows[i]]

DeleteRow(rows, id) == SelectSeq(rows, LAMBDA r : r.id # id)

\* "수정 적용" of a purchase: UPDATE the purchase row; the stock balance and
\* the log are not touched.
purchase_edit_btn(selected_id, new_date, new_bean, new_quantity, new_unit_price) ==
  /\ \E r \in Range(green_bean_purchases) : r.id = selected_id
  /\ LET new == PurchaseRow(selected_id, new_date, new_bean, new_quantity,
                            new_unit_price)
     IN IF new_bean # "" /\ new_quantity > 0 /\ new_unit_price > 0
        THEN /\ green_bean_purchases' =
                   UpdateRow(green_bean_purchases, selected_id, new)
             /\ last' = Report("purchase_edit_btn", NoRecord, FALSE,
                               << Msg("success", <<>>) >>, <<>>, NoBeans)
        ELSE /\ last' = Report("purchase_edit_btn", NoRecord, FALSE,
                               << Msg("error_required", <<>>) >>, <<>>, NoBeans)
             /\ UNCHANGED green_bean_purchases
  /\ UNCHANGED << sqlite_sequence, green_bean_inventory, inventory_transactions,
                  product_sales, sale_consumption, failures, sessions >>
  /\ UNCHANGED RecipeTables

\* "삭제하기" of a purchase: read the row as it is now; UPDATE the bean's
\* balance in place (no row, no effect), log -quantity, DELETE the purchase.
purchase_delete_btn(selected_id) ==
  /\ selected_id \in 1..sqlite_sequence.purchases
  /\ LET found == { r \in Range(green_bean_purchases) : r.id = selected_id }
     IN IF found # {}
        THEN LET purchase_data == CHOOSE r \in found : TRUE
             IN /\ Len(inventory_transactions) < MaxTx
                /\ green_bean_inventory' =
                      IF purchase_data.bean \in DOMAIN green_bean_inventory
                      THEN [green_bean_inventory EXCEPT
                              ![purchase_data.bean] = @ - purchase_data.quantity_kg]
                      ELSE green_bean_inventory
                /\ inventory_transactions' =
                      add_inventory_transaction(inventory_transactions,
                          "purchase_delete", purchase_data.bean,
                          0 - purchase_data.quantity_kg, selected_id)
                /\ green_bean_purchases' = DeleteRow(green_bean_purchases, selected_id)
                /\ last' = Report("purchase_delete_btn", NoRecord, FALSE,
                                  << Msg("success", <<>>) >>, <<>>, NoBeans)
        ELSE /\ last' = Report("purchase_delete_btn", NoRecord, FALSE,
                               << Msg("error_not_found", <<>>) >>, <<>>,
                               NoBeans)
             /\ UNCHANGED << green_bean_inventory, inventory_transactions,
                             green_bean_purchases >>
  /\ UNCHANGED << sqlite_sequence, product_sales, sale_consumption, failures, sessions >>
  /\ UNCHANGED RecipeTables

\* ----------------------------------------------------- stock deltas
\* One call of update_green_bean_inventory followed by one call of
\* add_inventory_transaction.  Each of the two opens its own connection and
\* commits, so each is durable as soon as it returns.  budget is the number
\* of statements the store still executes before it fails; NoFail is more
\* than any action issues.
NoFail == 2 * MaxTx + 2

Delta(bean, quantity_kg, transaction_type, reference_id) ==
  [bean |-> bean, quantity_kg |-> quantity_kg,
   transaction_type |-> transaction_type, reference_id |-> reference_id]

RECURSIVE ApplyDeltas(_, _)
ApplyDeltas(st, deltas) ==
  IF deltas = <<>> \/ st.failed THEN st
  ELSE LET d == Head(deltas)
       IN IF st.budget = 0 THEN [st EXCEPT !.failed = TRUE]
          ELSE LET s1 == [st EXCEPT
                            !.inv = update_green_bean_inventory(@, d.bean,
                                                                d.quantity_kg),
                            !.budget = @ - 1]
               IN IF s1.budget = 0 THEN [s1 EXCEPT !.failed = TRUE]
                  ELSE ApplyDeltas(
                         [s1 EXCEPT
                            !.tx = add_inventory_transaction(@, d.transaction_type,
                                     d.bean, d.quantity_kg, d.reference_id),
                            !.budget = @ - 1],
                         Tail(deltas))

\* SELECT ... FROM blend_recipes WHERE product_name = ?
\*   AND (effective_date IS NULL OR effective_date <= ?)
recipe_records(br, product_name, sale_date) ==
  SelectSeq(br, LAMBDA r : /\ r.product_name = product_name
                           /\ (r.effective_date = NullDate
                               \/ r.effective_date <= sale_date))

\* ORDER BY effective_date DESC, then the rows dated as the first one
latest_recipe(records) ==
  IF records = <<>> THEN <<>>
  ELSE LET latest_date == SetMax({ r.effective_date : r \in Range(records) })
       IN SelectSeq(records, LAMBDA r : r.effective_date = latest_date)

\* the stock movements of one sale quantity over a recipe, sign applied
Movements(recipe, quantity, sign, transaction_type, ref) ==
  [i \in DOMAIN recipe |->
     Delta(recipe[i].bean,
           sign * required_qty(green_bean_needed(quantity), recipe[i].blend_ratio),
           transaction_type, ref)]

\* --------------------------------------------------------- sale edit
\* the restore phase forgotten: the edit only deducts
restore_phase_skipped(br, record, selected_id) == <<>>

\* phase 1 of the edit: one restore per line of the legacy recipe in force
\* for the record's product on the record's date, at the record's quantity
restore_phase(br, record, selected_id) ==
  Movements(latest_recipe(recipe_records(br, record.product_name,
                                         record.sale_date)),
            record.quantity_kg, 1, "sale_edit", selected_id)

\* phase 2 of the edit: one deduction per line of the legacy recipe in force
\* for the new product on the new date, at the new quantity
deduct_phase(br, new_product, new_date, new_quantity, selected_id) ==
  Movements(latest_recipe(recipe_records(br, new_product, new_date)),
            new_quantity, 0 - 1, "sale_edit", selected_id)

\* "수정 적용" of a sale.  Both recipes are read from the legacy table
\* blend_recipes by an inline query; get_product_bom is not called.
sale_edit_btn(selected_id, new_date, new_product, new_quantity, new_unit_price, budget) ==
  /\ \E r \in Range(product_sales) : r.id = selected_id
  /\ LET record == CHOOSE r \in Range(product_sales) : r.id = selected_id
     IN IF new_product # "" /\ new_quantity > 0 /\ new_unit_price > 0
        THEN LET new == SaleRow(selected_id, new_date, new_product,
                                new_quantity, new_unit_price)
                 s0 == [inv |-> green_bean_inventory,
                        tx |-> inventory_transactions,
                        budget |-> budget, failed |-> FALSE]
                 s1 == ApplyDeltas(s0, restore_phase(blend_recipes, record,
                                                     selected_id))
                 s2 == ApplyDeltas(s1, deduct_phase(blend_recipes, new_product,
                                        new_date, new_quantity, selected_id))
                 failed == s2.failed \/ s2.budget = 0
             IN /\ Len(s2.tx) <= MaxTx
                /\ failed => failures < MaxFailures
                /\ failures' = IF failed THEN failures + 1 ELSE failures
                /\ green_bean_inventory' = s2.inv
                /\ inventory_transactions' = s2.tx
                /\ product_sales' =
                      IF failed THEN product_sales
                      ELSE UpdateRow(product_sales, selected_id, new)
                /\ last' = Report("sale_edit_btn", EditRecord(record, new), failed,
                                  IF failed THEN <<>>
                                  ELSE << Msg("success", <<>>) >>, <<>>, Stock)
        ELSE /\ last' = Report("sale_edit_btn", NoRecord, FALSE,
                               << Msg("error_required", <<>>) >>, <<>>, Stock)
             /\ UNCHANGED << green_bean_inventory, inventory_transactions,
                             product_sales, failures >>
  /\ UNCHANGED << green_bean_purchases, sqlite_sequence, sale_consumption,
                  sessions >>
  /\ UNCHANGED RecipeTables

\* ------------------------------------------------------- sale delete
\* "삭제하기" of a sale: restore over the legacy recipe as of the sale's
\* date, then DELETE the sale.
sale_delete_btn(selected_id) ==
  /\ \E r \in Range(product_sales) : r.id = selected_id
  /\ LET record == CHOOSE r \in Range(product_sales) : r.id = selected_id
         recipe == latest_recipe(recipe_records(blend_recipes,
                                   record.product_name, record.sale_date))
         s0 == [inv |-> green_bean_inventory, tx |-> inventory_transactions,
                budget |-> NoFail, failed |-> FALSE]
         s1 == ApplyDeltas(s0, Movements(recipe, record.quantity_kg, 1,
                                 "sale_delete", selected_id))
     IN /\ Len(s1.tx) <= MaxTx
        /\ green_bean_inventory' = s1.inv
        /\ inventory_transactions' = s1.tx
        /\ product_sales' = DeleteRow(product_sales, selected_id)
        /\ last' = Report("sale_delete_btn", record, FALSE,
                          << Msg("success", <<>>) >>, <<>>, Stock)
  /\ UNCHANGED << green_bean_purchases, sqlite_sequence, sale_consumption, failures, sessions >>
  /\ UNCHANGED RecipeTables

\* ------------------------------------------------------- sale upload
\* One row of the uploaded sheet; date = NoDate is an empty (NaN) date cell.
\* The sheet is free text: one row stands for a zero price, one for a
\* negative quantity.
UploadRowInputs ==
  [date : Dates \cup {NoDate}, product : ProductNames,
   quantity : Quantities, price : Prices \ {0}]
  \cup { [date |-> 1, product |-> "p1", quantity |-> QtyStep, price |-> 0],
         [date |-> 1, product |-> "p1", quantity |-> 0 - QtyStep,
          price |-> 110] }

Shortage(bean, required, current) ==
  [bean |-> bean, required |-> required, current |-> current]

\* per bean, the grams a list of movements takes out of stock
RECURSIVE Consumed(_)
Consumed(deltas) ==
  IF deltas = <<>> THEN NoBeans
  ELSE LET rest == Consumed(Tail(deltas))
           d == Head(deltas)
       IN [rest EXCEPT ![d.bean] = @ - d.quantity_kg]

\* unit_price = unit_price_with_vat / 1.1
strip_vat(unit_price_with_vat) == (unit_price_with_vat * 10) \div 11

\* The body of the row loop once get_product_bom has ended with res.
\* st.budget is the number of writing statements the store still executes
\* before it fails once: a failure inside a helper or at the INSERT of the
\* sale is caught by the row's except; what the helpers wrote before it
\* stays, each helper having committed on its own connection.
UploadRow(st, row, res) ==
  LET idx == Len(st.recorded) + 1
  IN
  IF res.raised
  THEN \* except Exception: the row is counted as failed and reported
       [st EXCEPT !.error_count = @ + 1,
                  !.warning_messages = Append(@, RowMsg(idx, "row_error", <<>>)),
                  !.recorded = Append(@, 0)]
  ELSE LET recipe == res.recipes
           needed == green_bean_needed(row.quantity)
           insufficient_beans ==
             LET short == SelectSeq(recipe, LAMBDA l :
                            get_bean_stock(st.inv, l.bean)
                              < required_qty(needed, l.blend_ratio))
             IN [i \in DOMAIN short |->
                   Shortage(short[i].bean,
                            required_qty(needed, short[i].blend_ratio),
                            get_bean_stock(st.inv, short[i].bean))]
           deltas == IF recipe # <<>> /\ insufficient_beans = <<>>
                     THEN Movements(recipe, row.quantity, 0 - 1, "sale", Null)
                     ELSE <<>>
           s1 == ApplyDeltas([inv |-> st.inv, tx |-> st.tx,
                              budget |-> st.budget, failed |-> FALSE], deltas)
           sale_id == st.seq + 1
       IN IF s1.failed \/ s1.budget = 0
          THEN [st EXCEPT
                  !.inv = s1.inv,
                  !.tx = s1.tx,
                  !.budget = NoFail,
                  !.error_count = @ + 1,
                  !.warning_messages = Append(@, RowMsg(idx, "row_error", <<>>)),
                  !.recorded = Append(@, 0)]
          ELSE
          [st EXCEPT
             !.inv = s1.inv,
             !.tx = s1.tx,
             !.budget = s1.budget - 1,
             !.warning_messages =
                IF recipe = <<>> THEN Append(@, RowMsg(idx, "no_recipe", <<>>))
                ELSE IF insufficient_beans # <<>>
                     THEN Append(@, RowMsg(idx, "insufficient",
                                           insufficient_beans))
                     ELSE @,
             !.sales = Append(@, SaleRow(sale_id, row.date, row.product,
                                         row.quantity, strip_vat(row.price))),
             !.seq = sale_id,
             !.recorded = Append(@, sale_id),
             !.cons = @ @@ (sale_id :> Consumed(deltas)),
             !.success_count = @ + 1]

\* for idx, row in df.iterrows(): every final state the loop can end in
RECURSIVE ProcessRows(_, _)
ProcessRows(st, rows) ==
  IF rows = <<>> THEN { st }
  ELSE LET row == Head(rows)
       IN IF row.date = NoDate
          THEN ProcessRows([st EXCEPT !.recorded = Append(@, 0)], Tail(rows))
          ELSE UNION { ProcessRows(UploadRow(st, row, res), Tail(rows)) :
                         res \in get_product_bom(products, product_bom_history,
                                     master_bom_recipes, blend_recipes,
                                     row.product, row.date) }

\* "데이터 업로드 및 생두 자동 차감" on a store that fails at the statement
\* budget allows no more.  The sales are inserted on the handler's own
\* connection and committed once, after the loop: when that commit fails
\* the exception is not caught and no sale of the sheet is recorded.
upload_sales(rows, budget) ==
  /\ LET st0 == [inv |-> green_bean_inventory, tx |-> inventory_transactions,
                 sales |-> product_sales, seq |-> sqlite_sequence.sales,
                 cons |-> sale_consumption, success_count |-> 0,
                 error_count |-> 0, warning_messages |-> <<>>,
                 recorded |-> <<>>, budget |-> budget]
     IN \E fin \in ProcessRows(st0, rows) :
          LET failed == fin.budget = 0
          IN /\ Len(fin.tx) <= MaxTx
             /\ fin.seq <= MaxSales
             /\ failed => failures < MaxFailures
             /\ failures' = IF failed THEN failures + 1 ELSE failures
             /\ green_bean_inventory' = fin.inv
             /\ inventory_transactions' = fin.tx
             /\ product_sales' = IF failed THEN product_sales ELSE fin.sales
             /\ sqlite_sequence' =
                  IF failed THEN sqlite_sequence
                  ELSE [sqlite_sequence EXCEPT !.sales = fin.seq]
             /\ sale_consumption' =
                  IF failed THEN sale_consumption ELSE fin.cons
             /\ last' = Report("btn_upload_sales", NoRecord, failed,
                               IF failed THEN <<>> ELSE fin.warning_messages,
                               IF failed THEN [i \in DOMAIN fin.recorded |-> 0]
                               ELSE fin.recorded, Stock)
  /\ UNCHANGED << green_bean_purchases, sessions >>
  /\ UNCHANGED RecipeTables

\* the upload on a store that does not fail
btn_upload_sales(rows) == upload_sales(rows, NoFail)

\* ------------------------------------------------------ legacy recipes
\* the edit as a replacement: the product's rows are deleted, then the new
\* version is inserted
blend_edit_replacing(product_to_edit, new_effective_date, new_blend_data) ==
  /\ \E r \in Range(blend_recipes) : r.product_name = product_to_edit
  /\ SumRatio(new_blend_data) = 100
  /\ blend_recipes' =
       SelectSeq(blend_recipes, LAMBDA r : r.product_name # product_to_edit)
       \o LegacyRows(product_to_edit, new_blend_data, new_effective_date)
  /\ last' = Report("blend_edit", NoRecord, FALSE,
                    << Msg("success", <<>>) >>, <<>>, NoBeans)
  /\ UNCHANGED << green_bean_inventory, inventory_transactions,
                  green_bean_purchases, product_sales, master_boms,
                  master_bom_recipes, products, product_bom_history,
                  sqlite_sequence, sale_consumption, failures, sessions >>

\* "수정 적용" of a recipe: the product is picked among the names that have
\* rows in blend_recipes; new_blend_data holds the filled-in lines.  The
\* new version is added, nothing is deleted.
blend_edit(product_to_edit, new_effective_date, new_blend_data) ==
  /\ \E r \in Range(blend_recipes) : r.product_name = product_to_edit
  /\ LET total_ratio == SumRatio(new_blend_data)
     IN IF total_ratio # 100
        THEN /\ last' = Report("blend_edit", NoRecord, FALSE,
                               << Msg("error_ratio", <<>>) >>, <<>>, NoBeans)
             /\ UNCHANGED blend_recipes
        ELSE IF Len(new_blend_data) = 0
        THEN /\ last' = Report("blend_edit", NoRecord, FALSE,
                               << Msg("error_empty", <<>>) >>, <<>>, NoBeans)
             /\ UNCHANGED blend_recipes
        ELSE /\ Len(blend_recipes) + Len(new_blend_data) <= MaxRecipeRows
             /\ blend_recipes' = blend_recipes \o
                   LegacyRows(product_to_edit, new_blend_data, new_effective_date)
             /\ last' = Report("blend_edit", NoRecord, FALSE,
                               << Msg("success", <<>>) >>, <<>>, NoBeans)
  /\ UNCHANGED << green_bean_inventory, inventory_transactions,
                  green_bean_purchases, product_sales, master_boms,
                  master_bom_recipes, products, product_bom_history,
                  sqlite_sequence, sale_consumption, failures, sessions >>

\* "배합비 전체 삭제": DELETE FROM blend_recipes WHERE product_name = ?
blend_delete(product_to_edit) ==
  /\ \E r \in Range(blend_recipes) : r.product_name = product_to_edit
  /\ blend_recipes' =
       SelectSeq(blend_recipes, LAMBDA r : r.product_name # product_to_edit)
  /\ last' = Report("blend_delete", NoRecord, FALSE,
                    << Msg("success", <<>>) >>, <<>>, NoBeans)
  /\ UNCHANGED << green_bean_inventory, inventory_transactions,
                  green_bean_purchases, product_sales, master_boms,
                  master_bom_recipes, products, product_bom_history,
                  sqlite_sequence, sale_consumption, failures, sessions >>

\* --------------------------------------------------------- master BOMs
\* "대표 BOM 등록".  bom_name is UNIQUE: a second BOM of the same name makes
\* the INSERT fail and nothing is committed.
btn_register_bom(bom_name, blend_data) ==
  /\ LET total_ratio == SumRatio(blend_data)
         Reject(kind, failed) ==
           /\ last' = Report("btn_register_bom", NoRecord, failed,
                             << Msg(kind, <<>>) >>, <<>>, NoBeans)
           /\ UNCHANGED << master_boms, master_bom_recipes, sqlite_sequence >>
     IN IF bom_name = "" THEN Reject("error_name", FALSE)
        ELSE IF total_ratio # 100 THEN Reject("error_ratio", FALSE)
        ELSE IF Len(blend_data) = 0 THEN Reject("error_empty", FALSE)
        ELSE IF \E r \in Range(master_boms) : r.bom_name = bom_name
        THEN Reject("integrity_error", TRUE)
        ELSE LET master_bom_id == sqlite_sequence.boms + 1
             IN /\ master_bom_id <= MaxBoms
                /\ master_boms' = Append(master_boms,
                       [id |-> master_bom_id, bom_name |-> bom_name])
                /\ master_bom_recipes' = master_bom_recipes \o
                       [i \in DOMAIN blend_data |->
                          [master_bom_id |-> master_bom_id,
                           bean |-> blend_data[i].bean,
                           blend_ratio |-> blend_data[i].blend_ratio]]
                /\ sqlite_sequence' = [sqlite_sequence EXCEPT !.boms = master_bom_id]
                /\ last' = Report("btn_register_bom", NoRecord, FALSE,
                                  << Msg("success", <<>>) >>, << master_bom_id >>,
                                  NoBeans)
  /\ UNCHANGED << green_bean_inventory, inventory_transactions,
                  green_bean_purchases, product_sales, blend_recipes, products,
                  product_bom_history, sale_consumption, failures, sessions >>

\* "제품 등록": INSERT INTO products (product_name, notes); master_bom_id is
\* NULL and is_active defaults to 1.  product_name is UNIQUE.
btn_add_product(product_name) ==
  /\ LET Reject(kind, failed) ==
           /\ last' = Report("btn_add_product", NoRecord, failed,
                             << Msg(kind, <<>>) >>, <<>>, NoBeans)
           /\ UNCHANGED << products, sqlite_sequence >>
     IN IF product_name = "" THEN Reject("error_name", FALSE)
        ELSE IF \E r \in Range(products) : r.product_name = product_name
        THEN Reject("integrity_error", TRUE)
        ELSE LET id == sqlite_sequence.products + 1
             IN /\ id <= MaxProducts
                /\ products' = Append(products,
                       [id |-> id, product_name |-> product_name,
                        master_bom_id |-> Null, is_active |-> TRUE])
                /\ sqlite_sequence' = [sqlite_sequence EXCEPT !.products = id]
                /\ last' = Report("btn_add_product", NoRecord, FALSE,
                                  << Msg("success", <<>>) >>, << id >>, NoBeans)
  /\ UNCHANGED << green_bean_inventory, inventory_transactions,
                  green_bean_purchases, product_sales, blend_recipes,
                  master_boms, master_bom_recipes, product_bom_history,
                  sale_consumption, failures, sessions >>

\* One row of the matching sheet: [product_name, bom_name, effective_date]
MatchRowInputs ==
  [product_name : ProductNames, bom_name : BomNames, effective_date : Dates]

\* the body of the row loop of the bulk matching
MatchRow(st, row) ==
  LET bom_result == { r \in Range(master_boms) : r.bom_name = row.bom_name }
      found == { r \in Range(st.products) : r.product_name = row.product_name }
  IN IF bom_result = {}
     THEN [st EXCEPT !.error_messages = Append(@, Msg("error_no_bom", <<>>))]
     ELSE IF found = {}
     THEN [st EXCEPT !.error_messages = Append(@, Msg("error_no_product", <<>>))]
     ELSE LET bom_id == (CHOOSE r \in bom_result : TRUE).id
              product_id == (CHOOSE r \in found : TRUE).id
          IN [st EXCEPT
                !.products = [i \in DOMAIN @ |->
                                IF @[i].id = product_id
                                THEN [@[i] EXCEPT !.master_bom_id = bom_id]
                                ELSE @[i]],
                !.history = Append(@, [product_id |-> product_id,
                                       master_bom_id |-> bom_id,
                                       effective_date |-> row.effective_date]),
                !.success_count = @ + 1]

RECURSIVE MatchRows(_, _)
MatchRows(st, rows) ==
  IF rows = <<>> THEN st ELSE MatchRows(MatchRow(st, Head(rows)), Tail(rows))

\* "일괄 매칭 적용"
btn_bulk_match(rows) ==
  /\ LET fin == MatchRows([products |-> products,
                           history |-> product_bom_history,
                           success_count |-> 0, error_messages |-> <<>>], rows)
     IN /\ Len(fin.history) <= MaxHistory
        /\ products' = fin.products
        /\ product_bom_history' = fin.history
        /\ last' = Report("btn_bulk_match", NoRecord, FALSE,
                          fin.error_messages, <<>>, NoBeans)
  /\ UNCHANGED << green_bean_inventory, inventory_transactions,
                  green_bean_purchases, product_sales, blend_recipes,
                  master_boms, master_bom_recipes, sqlite_sequence,
                  sale_consumption, failures, sessions >>

\* ------------------------------------------------------------------ Next
\* What the forms can submit.  The valid submissions are enumerated in full;
\* one submission stands for each way of failing the required-field check.
PurchaseInputs ==
  [date : {1}, bean : Beans, quantity : Quantities \ {0},
   unit_price : Prices \ {0}]
  \cup { [date |-> 1, bean |-> "", quantity |-> QtyStep, unit_price |-> 110],
         [date |-> 1, bean |-> "b1", quantity |-> 0, unit_price |-> 110],
         [date |-> 1, bean |-> "b1", quantity |-> QtyStep, unit_price |-> 0] }

SaleEditInputs ==
  [date : Dates, product : ProductNames, quantity : Quantities \ {0},
   unit_price : Prices \ {0}]
  \cup { [date |-> 1, product |-> "", quantity |-> QtyStep, unit_price |-> 110],
         [date |-> 1, product |-> "p1", quantity |-> 0, unit_price |-> 110],
         [date |-> 1, product |-> "p1", quantity |-> QtyStep, unit_price |-> 0] }

\* the sheets of 1..MaxRows rows over S
RowsOf(S) == UNION { [1..n -> S] : n \in 1..MaxRows }

PurchaseCreate ==
  \E in \in PurchaseInputs :
    btn_purchase(in.date, in.bean, in.quantity, in.unit_price)

PurchaseEdit ==
  \E id \in 1..MaxPurchases, in \in PurchaseInputs :
    purchase_edit_btn(id, in.date, in.bean, in.quantity, in.unit_price)

PurchaseDelete ==
  \E id \in 1..MaxPurchases : purchase_delete_btn(id)

SaleUpload == \E rows \in RowsOf(UploadRowInputs) : btn_upload_sales(rows)

\* the upload when the store may fail at any of its writing statements
SaleUploadFail ==
  \E rows \in RowsOf(UploadRowInputs), budget \in (0..MaxTx) \cup {NoFail} :
    upload_sales(rows, budget)

SaleEdit ==
  \E id \in 1..MaxSales, in \in SaleEditInputs :
    sale_edit_btn(id, in.date, in.product, in.quantity, in.unit_price, NoFail)

\* the number of statements the two phases of an edit issue
PhaseStatements(record, in) ==
  2 * (Len(restore_phase(blend_recipes, record, record.id))
       + Len(deduct_phase(blend_recipes, in.product, in.date, in.quantity,
                          record.id)))

\* the edit when the store may fail at any of its statements: at one of the
\* two statements of a stock movement, or at the UPDATE that ends the edit
SaleEditFail ==
  \E record \in Range(product_sales), in \in SaleEditInputs :
    \E budget \in (0..PhaseStatements(record, in)) \cup {NoFail} :
      sale_edit_btn(record.id, in.date, in.product, in.quantity,
                    in.unit_price, budget)

SaleDelete == \E id \in 1..MaxSales : sale_delete_btn(id)

RecipeEdit ==
  \E p \in ProductNames, d \in Dates, lines \in BlendInputs :
    blend_edit(p, d, lines)

RecipeDelete == \E p \in ProductNames : blend_delete(p)

BomRegister ==
  \E n \in BomNames \cup {""}, lines \in BlendInputs : btn_register_bom(n, lines)

ProductAdd == \E p \in ProductNames \cup {""} : btn_add_product(p)

BomMatch == \E rows \in RowsOf(MatchRowInputs) : btn_bulk_match(rows)

\* the ledger: purchases, sales and the legacy recipes the sale forms read
Next ==
  \/ PurchaseCreate
  \/ PurchaseEdit
  \/ PurchaseDelete
  \/ SaleUpload
  \/ SaleEdit
  \/ SaleDelete

Spec == Init /\ [][Next]_vars

\* the stock movements that enter and leave by whole records: purchases,
\* their deletion, and the deletion of sales
NextStock ==
  \/ PurchaseCreate
  \/ PurchaseDelete
  \/ SaleDelete

SpecStock == Init /\ [][NextStock]_vars

\* the ledger on a store that can fail in the middle of a sale edit
NextFail ==
  \/ PurchaseCreate
  \/ SaleEditFail
  \/ SaleDelete

SpecFail == Init /\ [][NextFail]_vars

\* recipe administration: master BOMs, products, their matching, and the
\* sales uploaded against them, on a store that holds no sale yet
InitBom == Init /\ product_sales = <<>> /\ Len(blend_recipes) <= 2

NextBom ==
  \/ BomRegister
  \/ ProductAdd
  \/ BomMatch
  \/ SaleUpload

SpecBom == InitBom /\ [][NextBom]_vars

\* One call of the resolver, get_product_bom(product_name, sale_date), for a
\* product and a date (NoDate: the date argument is omitted).  The call
\* reads the recipe tables and changes none; what it returns is reported.
ResolveInputs == [product_name : ProductNames, sale_date : Dates \cup {NoDate}]

Query(product_name, sale_date) ==
  [id |-> 0, product_name |-> product_name, sale_date |-> sale_date]

ResolveRecipe ==
  \E q \in ResolveInputs :
    \E res \in get_product_bom(products, product_bom_history,
                  master_bom_recipes, blend_recipes, q.product_name,
                  q.sale_date) :
      /\ last' = Report("get_product_bom", Query(q.product_name, q.sale_date),
                        res.raised, << Msg(res.system_type, res.recipes) >>,
                        <<>>, NoBeans)
      /\ UNCHANGED << green_bean_inventory, inventory_transactions,
                      green_bean_purchases, product_sales, sqlite_sequence,
                      sale_consumption, failures, sessions >>
      /\ UNCHANGED RecipeTables

\* recipe registration and resolution: master BOMs, products, matching, the
\* legacy recipe edits, and calls of the resolver on what they stored
NextRecipe ==
  \/ BomRegister
  \/ ProductAdd
  \/ BomMatch
  \/ RecipeEdit
  \/ RecipeDelete
  \/ ResolveRecipe

SpecRecipe == InitBom /\ [][NextRecipe]_vars

\* sales uploaded against purchased stock and edited legacy recipes, on a
\* store that can fail in the middle of an upload
NextSale ==
  \/ PurchaseCreate
  \/ RecipeEdit
  \/ SaleUploadFail

SpecSale == Init /\ [][NextSale]_vars

\* ------------------------------------------------- interleaved sessions
MaxCalls == 2

\* the changes a stock movement can carry: a purchase, a restore, a deduction
Changes == { QtyStep, 2 * QtyStep, 0 - QtyStep }

\* update_green_bean_inventory, first half: the connection is opened and
\* SELECT current_stock_kg ... fetchone() is read into result
update_select(s, bean, quantity_change) ==
  /\ sessions[s].pc = "idle"
  /\ sessions[s].calls < MaxCalls
  /\ sessions' = [sessions EXCEPT ![s] =
         [@ EXCEPT !.pc = "selected", !.bean = bean,
                   !.quantity_change = quantity_change,
                   !.found = bean \in DOMAIN green_bean_inventory,
                   !.result = get_bean_stock(green_bean_inventory, bean),
                   !.calls = @ + 1]]
  /\ last' = Report("update_select", NoRecord, FALSE, <<>>, <<>>, NoBeans)
  /\ UNCHANGED << green_bean_inventory, inventory_transactions,
                  green_bean_purchases, product_sales, sqlite_sequence,
                  sale_consumption, failures >>
  /\ UNCHANGED RecipeTables

\* update_green_bean_inventory, second half: if result: UPDATE ... SET
\* current_stock_kg = new_stock, with new_stock = result[0] + quantity_change
\* computed from what was read; else: INSERT the row, which the UNIQUE key
\* refuses when the bean has got a row in the meantime.  Then commit.
update_write(s) ==
  /\ sessions[s].pc = "selected"
  /\ LET me == sessions[s]
         new_stock == me.result + me.quantity_change
         refused == ~me.found /\ me.bean \in DOMAIN green_bean_inventory
     IN /\ green_bean_inventory' =
             IF me.found
             THEN [green_bean_inventory EXCEPT ![me.bean] = new_stock]
             ELSE IF refused THEN green_bean_inventory
             ELSE green_bean_inventory @@ (me.bean :> me.quantity_change)
        /\ sessions' = [sessions EXCEPT ![s] =
               [@ EXCEPT !.pc = "idle",
                         !.applied[me.bean] =
                            IF refused THEN @ ELSE @ + me.quantity_change]]
        /\ last' = Report("update_write", NoRecord, refused,
                          IF refused THEN << Msg("integrity_error", <<>>) >>
                          ELSE <<>>, <<>>, NoBeans)
  /\ UNCHANGED << inventory_transactions, green_bean_purchases, product_sales,
                  sqlite_sequence, sale_consumption, failures >>
  /\ UNCHANGED RecipeTables

\* the stock statement of the purchase deletion: one UPDATE that computes
\* in the store, SET current_stock_kg = current_stock_kg - ?
update_in_place(s, bean, quantity) ==
  /\ sessions[s].pc = "idle"
  /\ sessions[s].calls < MaxCalls
  /\ bean \in DOMAIN green_bean_inventory
  /\ green_bean_inventory' =
       [green_bean_inventory EXCEPT ![bean] = @ - quantity]
  /\ sessions' = [sessions EXCEPT ![s] =
         [@ EXCEPT !.calls = @ + 1, !.applied[bean] = @ - quantity]]
  /\ last' = Report("update_in_place", NoRecord, FALSE, <<>>, <<>>, NoBeans)
  /\ UNCHANGED << inventory_transactions, green_bean_purchases, product_sales,
                  sqlite_sequence, sale_consumption, failures >>
  /\ UNCHANGED RecipeTables

StockSelect ==
  \E s \in Sessions, bean \in Beans, quantity_change \in Changes :
    update_select(s, bean, quantity_change)

StockWrite == \E s \in Sessions : update_write(s)

StockInPlace ==
  \E s \in Sessions, bean \in Beans : update_in_place(s, bean, QtyStep)

\* two sessions moving stock at the same time, on a store without sales
InitSessions == Init /\ product_sales = <<>> /\ blend_recipes = <<>>

NextSessions ==
  \/ StockSelect
  \/ StockWrite
  \/ StockInPlace

SpecSessions == InitSessions /\ [][NextSessions]_vars

\* ----------------------------------------------------------------- reports
\* The two report pages compute when they are drawn, without a button; each
\* is one read-only action here.  A figure is an exact fraction num / den.
\* total_amount of a purchase is quantity * unit_price, as the entry and the
\* edit of a purchase store it.
Fraction(num, den) == [num |-> num, den |-> den]

\* SUM(quantity_kg) and SUM(quantity_kg * unit_price) over purchase rows
RECURSIVE SumQuantity(_)
SumQuantity(rows) ==
  IF rows = <<>> THEN 0 ELSE Head(rows).quantity_kg + SumQuantity(Tail(rows))

RECURSIVE SumAmount(_)
SumAmount(rows) ==
  IF rows = <<>> THEN 0
  ELSE Head(rows).quantity_kg * Head(rows).unit_price + SumAmount(Tail(rows))

\* strftime('%Y-%m', sale_date): two days to the month
MonthOf(d) == (d + 1) \div 2

\* f"{month}-31": no day of the month compares above it
MonthEnd(month) == 2 * month

\* inventory page: COALESCE((SELECT SUM(p.quantity_kg * p.unit_price) /
\* NULLIF(SUM(p.quantity_kg), 0) ... WHERE p.origin = i.bean_origin AND
\* p.product_name = i.bean_product), 0): every purchase of the bean, of any date
weighted_avg_price(purchases, bean) ==
  LET mine == SelectSeq(purchases, LAMBDA p : p.bean = bean)
      quantity == SumQuantity(mine)
  IN IF quantity = 0 THEN Fraction(0, 1)
     ELSE Fraction(SumAmount(mine), quantity)

\* the rows of the stock table: the beans WHERE i.current_stock_kg > 0
green_inv(inv, purchases) ==
  { [bean |-> b, current_stock_kg |-> inv[b],
     weighted_avg_price |-> weighted_avg_price(purchases, b)] :
    b \in { x \in DOMAIN inv : inv[x] > 0 } }

inventory_report ==
  /\ last' = Report("inventory_report", NoRecord, FALSE,
                    << Msg("green_inv",
                           green_inv(green_bean_inventory,
                                     green_bean_purchases)) >>,
                    <<>>, NoBeans)
  /\ UNCHANGED << green_bean_inventory, inventory_transactions,
                  green_bean_purchases, product_sales, sqlite_sequence,
                  sale_consumption, failures, sessions >>
  /\ UNCHANGED RecipeTables

\* execute_query_to_df(conn, <query>, conn, params=(...)): the third
\* positional argument already binds params, so the call itself raises
\* TypeError, outside the try of the function; the page run ends there.
TypeErrorAt(query) == [raised |-> TRUE, at |-> query, profit_data |-> <<>>]

\* bean_price_query: SUM(total_amount) / SUM(quantity_kg) over the bean's
\* purchases WHERE purchase_date <= cutoff; SQL NULL (Null) over no rows
bean_price_query(purchases, bean, cutoff) ==
  LET mine == SelectSeq(purchases, LAMBDA p :
                p.bean = bean /\ p.purchase_date <= cutoff)
  IN IF mine = <<>> THEN Null
     ELSE Fraction(SumAmount(mine), SumQuantity(mine))

\* bean_price = execute_query_to_df(conn, bean_price_query, conn,
\* params=(origin, product_name, f"{month}-31"))[...]: the misplaced call;
\* bean_price_query(purchases, bean, MonthEnd(month)) is never executed
bean_price(purchases, bean, month) == TypeErrorAt("bean_price_query")

\* var_cost = execute_query_to_df(conn, variable_cost_query, conn,
\* params=(f"{month}-01",)): the misplaced call again
var_cost(month) == TypeErrorAt("variable_cost_query")

\* monthly_sales: the months that have a sale BETWEEN start_date AND end_date
monthly_sales(sales, start_date, end_date) ==
  { MonthOf(r.sale_date) :
      r \in { x \in Range(sales) :
                start_date <= x.sale_date /\ x.sale_date <= end_date } }

\* month_sales: the products sold in the month, GROUP BY product_name
month_sales(sales, month) ==
  { r.product_name : r \in { x \in Range(sales) : MonthOf(x.sale_date) = month } }

\* recipe: SELECT ... FROM blend_recipes WHERE product_name = ?  (every row
\* of the product, whatever its effective date)
recipe_of(br, product) == SelectSeq(br, LAMBDA r : r.product_name = product)

\* The body of the month loop.  The first recipe row of the month's products
\* reaches the bean price call; a month without recipe rows reaches the
\* variable cost call.  Both are the misplaced call, so the statements after
\* them (cogs, gross_profit, gross_margin, profit_data.append) never run.
month_profit(sales, br, purchases, month) ==
  LET with_recipe == { product \in month_sales(sales, month) :
                         recipe_of(br, product) # <<>> }
  IN IF with_recipe # {}
     THEN LET product == CHOOSE x \in with_recipe : TRUE
              bean_row == Head(recipe_of(br, product))
          IN bean_price(purchases, bean_row.bean, month)
     ELSE var_cost(month)

\* the monthly profit and loss page for the period start_date..end_date
profit_report(start_date, end_date) ==
  /\ LET months == monthly_sales(product_sales, start_date, end_date)
         Show(failed, kind, payload) ==
           last' = Report("profit_report",
                          Query("", start_date) @@ [end_date |-> end_date],
                          failed, << Msg(kind, payload) >>, <<>>, NoBeans)
     IN IF product_sales = <<>> THEN Show(FALSE, "no_sales", <<>>)
        ELSE IF months = {} THEN Show(FALSE, "no_data", <<>>)
        ELSE LET first == CHOOSE m \in months : \A o \in months : m <= o
                 res == month_profit(product_sales, blend_recipes,
                                     green_bean_purchases, first)
             IN Show(res.raised, res.at, res.profit_data)
  /\ UNCHANGED << green_bean_inventory, inventory_transactions,
                  green_bean_purchases, product_sales, sqlite_sequence,
                  sale_consumption, failures, sessions >>
  /\ UNCHANGED RecipeTables

InventoryReport == inventory_report

ProfitReport ==
  \E start_date \in Dates, end_date \in Dates :
    profit_report(start_date, end_date)

\* the ledger of purchases and sales and the two reports drawn from it
NextReport ==
  \/ PurchaseCreate
  \/ PurchaseDelete
  \/ SaleDelete
  \/ InventoryReport
  \/ ProfitReport

SpecReport == Init /\ [][NextReport]_vars

\* ------------------------------------------------------ single matching
\* the first option of the BOM selector, "연결 해제"
Unlink == "unlink"

\* UPDATE products SET master_bom_id = ? WHERE product_name = ?
SetMasterBom(prods, names, master_bom_id) ==
  [i \in DOMAIN prods |->
     IF prods[i].product_name \in names
     THEN [prods[i] EXCEPT !.master_bom_id = master_bom_id]
     ELSE prods[i]]

\* "매칭 적용".  The page offers it once there are products and BOMs and at
\* least one product is selected.  Unlinking clears master_bom_id of the
\* selected products and leaves product_bom_history alone.  Linking updates
\* the first selected product and then hands fetchone()'s row, not its id,
\* to the history INSERT as product_id: a row is no bindable value, the
\* INSERT raises and commit is never reached.  Whether the UPDATE before it
\* survives depends on the connection; both outcomes are kept.
btn_apply_match(selected_products, selected_bom, effective_date_match) ==
  /\ products # <<>>
  /\ master_boms # <<>>
  /\ selected_products # {}
  /\ selected_products \subseteq { r.product_name : r \in Range(products) }
  /\ IF selected_bom = Unlink
     THEN /\ products' = SetMasterBom(products, selected_products, Null)
          /\ last' = Report("btn_apply_match", NoRecord, FALSE,
                            << Msg("success_unlink", <<>>) >>, <<>>, NoBeans)
     ELSE /\ \E r \in Range(master_boms) : r.bom_name = selected_bom
          /\ LET bom_id ==
                   (CHOOSE r \in Range(master_boms) : r.bom_name = selected_bom).id
             IN \E product \in selected_products :
                  products' \in { products,
                                  SetMasterBom(products, {product}, bom_id) }
          /\ last' = Report("btn_apply_match", NoRecord, TRUE,
                            << Msg("binding_error", <<>>) >>, <<>>, NoBeans)
  /\ UNCHANGED << green_bean_inventory, inventory_transactions,
                  green_bean_purchases, product_sales, blend_recipes,
                  master_boms, master_bom_recipes, product_bom_history,
                  sqlite_sequence, sale_consumption, failures, sessions >>

MatchApply ==
  \E selected_products \in SUBSET ProductNames,
     selected_bom \in BomNames \cup {Unlink}, effective_date_match \in Dates :
    btn_apply_match(selected_products, selected_bom, effective_date_match)

\* matching products to master BOMs, one by one or by sheet, and calls of
\* the resolver on what the matching stored
NextMatch ==
  \/ BomRegister
  \/ ProductAdd
  \/ BomMatch
  \/ MatchApply
  \/ ResolveRecipe

SpecMatch == InitBom /\ [][NextMatch]_vars

\* sales held by the store, edited and deleted after their products have been
\* matched to master BOMs
InitRematch == Init /\ product_sales # <<>> /\ Len(blend_recipes) <= 2

\* the edits that move a sale to another date and leave the rest as it is
SaleRedate ==
  \E r \in Range(product_sales), d \in Dates :
    sale_edit_btn(r.id, d, r.product_name, r.quantity_kg, 110, NoFail)

NextRematch ==
  \/ BomRegister
  \/ ProductAdd
  \/ BomMatch
  \/ SaleRedate
  \/ SaleDelete

SpecRematch == InitRematch /\ [][NextRematch]_vars

\* ------------------------------------------------- product extraction
\* unique_products: the distinct names of the sheet's product column
ExtractInputs ==
  { <<>> } \cup { << p >> : p \in ProductNames }
  \cup { pq \in ProductNames \X ProductNames : pq[1] # pq[2] }

\* for product_name in unique_products: INSERT INTO products (product_name).
\* st.aborted: a name that exists made the INSERT raise; the handler
\* `except sqlite3.IntegrityError` names a module that is never imported, so
\* matching the exception raises NameError and the loop is left.
RECURSIVE ExtractRows(_, _)
ExtractRows(st, names) ==
  IF names = <<>> \/ st.aborted THEN st
  ELSE LET product_name == Head(names)
       IN IF \E r \in Range(st.products) : r.product_name = product_name
          THEN [st EXCEPT !.aborted = TRUE]
          ELSE ExtractRows(
                 [st EXCEPT
                    !.products = Append(@, [id |-> st.seq + 1,
                                            product_name |-> product_name,
                                            master_bom_id |-> Null,
                                            is_active |-> TRUE]),
                    !.seq = @ + 1,
                    !.success_count = @ + 1],
                 Tail(names))

\* "제품 추출 및 등록".  After the loop: commit and the success message.  When
\* the loop was left by the NameError, the except Exception around the page
\* shows the file error and commit is never reached: the rows inserted so
\* far are kept or dropped with the connection; both outcomes are kept.
btn_extract_products(unique_products) ==
  /\ LET fin == ExtractRows([products |-> products,
                             seq |-> sqlite_sequence.products,
                             success_count |-> 0, aborted |-> FALSE],
                            unique_products)
     IN IF fin.aborted
        THEN /\ \E kept \in BOOLEAN :
                  /\ products' = IF kept THEN fin.products ELSE products
                  /\ sqlite_sequence' =
                       IF kept
                       THEN [sqlite_sequence EXCEPT !.products = fin.seq]
                       ELSE sqlite_sequence
             /\ last' = Report("btn_extract_products", NoRecord, FALSE,
                               << Msg("error_file", <<>>) >>,
                               << fin.success_count, 0 >>, NoBeans)
        ELSE /\ products' = fin.products
             /\ sqlite_sequence' = [sqlite_sequence EXCEPT !.products = fin.seq]
             /\ last' = Report("btn_extract_products", NoRecord, FALSE,
                               << Msg("success", <<>>) >>,
                               << fin.success_count, 0 >>, NoBeans)
  /\ UNCHANGED << green_bean_inventory, inventory_transactions,
                  green_bean_purchases, product_sales, blend_recipes,
                  master_boms, master_bom_recipes, product_bom_history,
                  sale_consumption, failures, sessions >>

ProductExtract ==
  \E unique_products \in ExtractInputs : btn_extract_products(unique_products)

\* the product list: single entry, extraction from a sheet, and the BOMs
\* the products are matched to
NextProducts ==
  \/ BomRegister
  \/ ProductAdd
  \/ ProductExtract
  \/ MatchApply

SpecProducts == InitBom /\ [][NextProducts]_vars

\* ================================================================ claims
\* the sum of the signed quantities the log holds for a bean
RECURSIVE LogSum(_, _)
LogSum(tx, bean) ==
  IF tx = <<>> THEN 0
  ELSE (IF Head(tx).bean = bean THEN Head(tx).quantity_kg ELSE 0)
       + LogSum(Tail(tx), bean)

\* the net change of each bean's balance over a list of movements
RECURSIVE NetChange(_)
NetChange(deltas) ==
  IF deltas = <<>> THEN NoBeans
  ELSE LET rest == NetChange(Tail(deltas))
           d == Head(deltas)
       IN [rest EXCEPT ![d.bean] = @ + d.quantity_kg]

\* the legacy recipe in force for a product on a date
RecipeInForce(product_name, sale_date) ==
  latest_recipe(recipe_records(blend_recipes, product_name, sale_date))

\* the lines of RecipeInForce a quantity is short of, as the warning lists them
Shortages(recipe, quantity) ==
  LET needed == green_bean_needed(quantity)
      short == SelectSeq(recipe, LAMBDA l :
                 get_bean_stock(green_bean_inventory, l.bean)
                   < required_qty(needed, l.blend_ratio))
  IN [i \in DOMAIN short |->
        Shortage(short[i].bean, required_qty(needed, short[i].blend_ratio),
                 get_bean_stock(green_bean_inventory, short[i].bean))]

\* the upload of the one-row sheet << row >> has recorded the row as a sale
Recorded(row) ==
  /\ Len(product_sales') = Len(product_sales) + 1
  /\ LET r == product_sales'[Len(product_sales')]
     IN /\ r.sale_date = row.date
        /\ r.product_name = row.product
        /\ r.quantity_kg = row.quantity

DatedRows == { row \in UploadRowInputs : row.date # NoDate }

\* C1: in every reachable state, each bean's stock balance equals the sum of
\* the signed quantities of the log entries recorded for that bean.
C1_StockEqualsLogSum ==
  \A b \in Beans :
    get_bean_stock(green_bean_inventory, b) = LogSum(inventory_transactions, b)

\* C2: deleting a sale adds to each bean's balance exactly what was deducted
\* from it when the sale was created (nothing where nothing was deducted).
C2_DeleteReversesCreation ==
  [][\A id \in 1..MaxSales :
       sale_delete_btn(id) =>
         \A b \in Beans : Stock'[b] = Stock[b] + sale_consumption[id][b]]_vars

\* C3: a sale edit that repeats the record's product, date and quantity (the
\* price may change) leaves every bean's stock balance as it was.
C3_NoOpEditKeepsStock ==
  [][\A r \in Range(product_sales) :
       \A pr \in Prices \cup {r.unit_price} :
         sale_edit_btn(r.id, r.sale_date, r.product_name, r.quantity_kg, pr,
                       NoFail)
           => \A b \in Beans : Stock'[b] = Stock[b]]_vars

\* C3 witness: a price-only edit of a sale whose recipe has lines has run on
\* a stocked store, restored and deducted, and the balances are as before.
C3_PriceOnlyEditRan ==
  /\ last.op = "sale_edit_btn"
  /\ last.record.id # 0
  /\ last.record.same_sale
  /\ ~last.record.same_price
  /\ \E r \in Range(product_sales) :
       /\ r.id = last.record.id
       /\ Len(RecipeInForce(r.product_name, r.sale_date)) = 2
  /\ Len(inventory_transactions) >= 4
  /\ inventory_transactions[Len(inventory_transactions)].transaction_type
       = "sale_edit"
  /\ \E b \in Beans : last.pre[b] > 0
  /\ Stock = last.pre

\* C4: deleting a sale and then creating a sale of the same product, date and
\* quantity leaves every bean's balance as it was before the deletion.
C4_DeleteRecreateKeepsStock ==
  [][\A row \in DatedRows :
       (/\ last.op = "sale_delete_btn"
        /\ row.date = last.record.sale_date
        /\ row.product = last.record.product_name
        /\ row.quantity = last.record.quantity_kg
        /\ btn_upload_sales(<< row >>))
         => \A b \in Beans : Stock'[b] = last.pre[b]]_vars

\* the lines a call of the resolver yields: none when it raises
ResolvedLines(res) == IF res.raised THEN <<>> ELSE res.recipes

C6_EditAllOrNothing ==
  [][\A r \in Range(product_sales) : \A in \in SaleEditInputs :
       \A budget \in 0..NoFail :
         sale_edit_btn(r.id, in.date, in.product, in.quantity, in.unit_price,
                       budget)
           => LET moves == restore_phase(blend_recipes, r, r.id)
                           \o deduct_phase(blend_recipes, in.product, in.date,
                                           in.quantity, r.id)
              IN \/ /\ green_bean_inventory' = green_bean_inventory
                    /\ inventory_transactions' = inventory_transactions
                    /\ product_sales' = product_sales
                 \/ /\ \A b \in Beans :
                         Stock'[b] = Stock[b] + NetChange(moves)[b]
                    /\ inventory_transactions' = inventory_transactions \o moves
                    /\ product_sales' =
                         UpdateRow(product_sales, r.id,
                                   SaleRow(r.id, in.date, in.product,
                                           in.quantity, in.unit_price))]_vars

C8_ShortSaleRecordedWithWarning ==
  [][\A row \in DatedRows :
       LET short == Shortages(RecipeInForce(row.product, row.date),
                              row.quantity)
       IN (short # <<>> /\ btn_upload_sales(<< row >>))
            => /\ Recorded(row)
               /\ last'.messages = << RowMsg(1, "insufficient", short) >>]_vars

\* C9: for a product no master BOM assignment and no legacy recipe row
\* applies to on the sale date, the resolver returns no lines tagged none
\* without raising, and the upload of a sale of it records the sale, changes
\* no balance, appends no log entry and shows a warning.
C9_NoRecipeSaleRecorded ==
  [][\A row \in DatedRows :
       (/\ product_result(products, row.product) = {}
        /\ recipe_records(blend_recipes, row.product, row.date) = <<>>
        /\ btn_upload_sales(<< row >>))
         => /\ get_product_bom(products, product_bom_history,
                               master_bom_recipes, blend_recipes, row.product,
                               row.date) = { Returned(<<>>, "none") }
            /\ Recorded(row)
            /\ green_bean_inventory' = green_bean_inventory
            /\ inventory_transactions' = inventory_transactions
            /\ last'.messages = << RowMsg(1, "no_recipe", <<>>) >>]_vars

\* C10: for an active product with dated BOM assignments, resolving as of a
\* date D that some assignment is effective on or before returns the lines of
\* the BOM of an assignment with the greatest effective date <= D.
C10_ResolvesLatestAssignment ==
  \A p \in ProductNames, D \in Dates :
    \A product_id \in product_result(products, p) :
      LET eligible == { h \in Range(product_bom_history) :
                          /\ h.product_id = product_id
                          /\ h.effective_date <= D }
          latest == { h \in eligible :
                        \A o \in eligible : o.effective_date <= h.effective_date }
      IN eligible # {} =>
           \A res \in get_product_bom(products, product_bom_history,
                          master_bom_recipes, blend_recipes, p, D) :
             \E h \in latest :
               res = Returned(get_master_bom_recipe(master_bom_recipes,
                                                    h.master_bom_id),
                              "new_system")

\* ---------------------------------------------------- resolver claims
\* every result a call of the resolver for a product and a date can have
Resolved(product_name, sale_date) ==
  get_product_bom(products, product_bom_history, master_bom_recipes,
                  blend_recipes, product_name, sale_date)

\* the assignments of a product with a BOM id that are effective on a date
QualifyingAssignments(product_id, D) ==
  { h \in Range(product_bom_history) :
      /\ h.product_id = product_id
      /\ h.master_bom_id # Null
      /\ h.effective_date <= D }

\* the rows of a set that carry its greatest effective date
LatestOf(S) == { h \in S : \A o \in S : o.effective_date <= h.effective_date }

\* the result that hands out the lines of a master BOM
MasterBomResult(master_bom_id) ==
  Returned(get_master_bom_recipe(master_bom_recipes, master_bom_id),
           "new_system")

\* C11: for a product that has, on a date, both a qualifying master-BOM
\* assignment and qualifying legacy rows, the resolver returns the lines of
\* the latest qualifying assignment's BOM tagged as master BOM; it returns
\* legacy rows only for a product without a qualifying assignment.
C11_MasterBomBeforeLegacy ==
  \A p \in ProductNames, D \in Dates :
    \A product_id \in product_result(products, p) :
      LET eligible == QualifyingAssignments(product_id, D)
      IN /\ (eligible # {} /\ recipe_records(blend_recipes, p, D) # <<>>)
              => \A res \in Resolved(p, D) :
                   \E h \in LatestOf(eligible) :
                     res = MasterBomResult(h.master_bom_id)
         /\ \A res \in Resolved(p, D) :
              (~res.raised /\ res.system_type = "old_system") => eligible = {}

\* C12: for a product without a qualifying assignment whose legacy rows
\* include rows dated null or on or before the date, the resolver returns
\* exactly the rows among these that carry their greatest effective date,
\* tagged legacy.
C12_LegacyLatestBatch ==
  \A p \in ProductNames, D \in Dates :
    LET qualifying == recipe_records(blend_recipes, p, D)
        dates == { r.effective_date : r \in Range(qualifying) }
        batch == SelectSeq(qualifying,
                   LAMBDA r : \A d \in dates : d <= r.effective_date)
    IN (/\ qualifying # <<>>
        /\ \A id \in product_result(products, p) :
             QualifyingAssignments(id, D) = {})
         => Resolved(p, D) = { Returned(ToLines(batch), "old_system") }

\* C13: with the date omitted the resolver never raises; for a product with
\* assignments it follows an assignment of the greatest effective date among
\* all of them, and otherwise returns the legacy rows that carry the greatest
\* effective date among all legacy rows of the product (none: no recipe).
C13_UndatedUsesLatestOverall ==
  \A p \in ProductNames :
    LET ids == product_result(products, p)
        assigns == { h \in Range(product_bom_history) : h.product_id \in ids }
        rows == SelectSeq(blend_recipes, LAMBDA r : r.product_name = p)
        dates == { r.effective_date : r \in Range(rows) }
        batch == SelectSeq(rows, LAMBDA r : \A d \in dates : d <= r.effective_date)
        legacy == IF rows = <<>> THEN Returned(<<>>, "none")
                  ELSE Returned(ToLines(batch), "old_system")
    IN \A res \in Resolved(p, NoDate) :
         IF assigns = {} THEN res = legacy
         ELSE \E h \in LatestOf(assigns) :
                res = IF h.master_bom_id # Null
                      THEN MasterBomResult(h.master_bom_id)
                      ELSE legacy

\* C13 witness: the resolver was called without a date for a product that
\* has two assignments of different dates and BOMs, and it returned the
\* lines of the later one's BOM.
C13_UndatedCallTookLaterBom ==
  /\ last.op = "get_product_bom"
  /\ last.record.sale_date = NoDate
  /\ ~last.failed
  /\ \E h1, h2 \in Range(product_bom_history) :
       /\ h1.product_id = h2.product_id
       /\ h1.product_id \in product_result(products, last.record.product_name)
       /\ h1.effective_date < h2.effective_date
       /\ MasterBomResult(h1.master_bom_id) # MasterBomResult(h2.master_bom_id)
       /\ last.messages = << Msg("new_system",
                                 MasterBomResult(h2.master_bom_id).recipes) >>

\* ---------------------------------------------------- purchase claims
\* a purchase form submission that passes the required-field check
ValidPurchase(in) == in.bean # "" /\ in.quantity > 0 /\ in.unit_price > 0

\* C14: a purchase edit from (bean B1, quantity Q1) to (bean B2, quantity Q2)
\* takes Q1 off B1's balance and adds Q2 to B2's, and the log's signed sum
\* for each bean moves by the same amount.
C14_PurchaseEditReappliesStock ==
  [][\A r \in Range(green_bean_purchases) : \A in \in PurchaseInputs :
       (/\ ValidPurchase(in)
        /\ purchase_edit_btn(r.id, in.date, in.bean, in.quantity, in.unit_price))
         => \A b \in Beans :
              LET change == (IF b = in.bean THEN in.quantity ELSE 0)
                            - (IF b = r.bean THEN r.quantity_kg ELSE 0)
              IN /\ Stock'[b] = Stock[b] + change
                 /\ LogSum(inventory_transactions', b)
                      = LogSum(inventory_transactions, b) + change]_vars

\* C15: a purchase of quantity Q of a bean leaves the bean with a balance
\* row holding its former balance (0 without a row) plus exactly Q, changes
\* no other bean's row, and appends exactly one log entry, of +Q, that
\* references the new purchase.
C15_PurchaseAddsQuantity ==
  [][\A in \in PurchaseInputs :
       (/\ ValidPurchase(in)
        /\ btn_purchase(in.date, in.bean, in.quantity, in.unit_price))
         => /\ DOMAIN green_bean_inventory'
                 = DOMAIN green_bean_inventory \cup {in.bean}
            /\ green_bean_inventory'[in.bean]
                 = get_bean_stock(green_bean_inventory, in.bean) + in.quantity
            /\ \A b \in DOMAIN green_bean_inventory \ {in.bean} :
                 green_bean_inventory'[b] = green_bean_inventory[b]
            /\ Len(green_bean_purchases') = Len(green_bean_purchases) + 1
            /\ inventory_transactions' =
                 Append(inventory_transactions,
                        [transaction_type |-> "bean_purchase",
                         bean |-> in.bean,
                         quantity_kg |-> in.quantity,
                         reference_id |->
                           green_bean_purchases'[Len(green_bean_purchases')].id])
    ]_vars

\* C15 witness: a purchase has just been recorded for a bean that already
\* had a balance, and the balance is now the former one plus the quantity.
C15_PurchaseOnStockedBeanRan ==
  /\ last.op = "btn_purchase"
  /\ last.recorded # <<>>
  /\ Len(inventory_transactions) >= 2
  /\ LET e == inventory_transactions[Len(inventory_transactions)]
     IN /\ e.transaction_type = "bean_purchase"
        /\ e.reference_id = last.recorded[1]
        /\ e.quantity_kg > 0
        /\ Stock[e.bean] > e.quantity_kg
        /\ Stock[e.bean] = LogSum(inventory_transactions, e.bean)

\* C16: deleting a purchase takes off the bean's balance exactly what the
\* purchase's creation added to it (the bean and quantity of its
\* bean_purchase log entry), appends one purchase_delete entry of that
\* negative amount, and removes the purchase record.
C16_PurchaseDeleteReversesCreation ==
  [][\A r \in Range(green_bean_purchases) :
       purchase_delete_btn(r.id)
         => \E i \in DOMAIN inventory_transactions :
              LET e == inventory_transactions[i]
              IN /\ e.transaction_type = "bean_purchase"
                 /\ e.reference_id = r.id
                 /\ \A b \in Beans :
                      Stock'[b] = Stock[b]
                                  - (IF b = e.bean THEN e.quantity_kg ELSE 0)
                 /\ inventory_transactions' =
                      Append(inventory_transactions,
                             [transaction_type |-> "purchase_delete",
                              bean |-> e.bean,
                              quantity_kg |-> 0 - e.quantity_kg,
                              reference_id |-> r.id])
                 /\ green_bean_purchases' =
                      DeleteRow(green_bean_purchases, r.id)]_vars

\* -------------------------------------------------------- sale claims
\* round(Q * 1.2 * ratio_pct / 100, 3), in grams
RoundedShare(quantity, ratio) ==
  RoundDiv(quantity * ROASTING_LOSS_NUM * ratio, ROASTING_LOSS_DEN * 100)

\* per bean, the rounded shares of a quantity over the lines of a recipe
RECURSIVE Shares(_, _)
Shares(recipe, quantity) ==
  IF recipe = <<>> THEN NoBeans
  ELSE LET rest == Shares(Tail(recipe), quantity)
           l == Head(recipe)
       IN [rest EXCEPT ![l.bean] = @ + RoundedShare(quantity, l.blend_ratio)]

\* C17: a sale of Q of a product whose recipe in force has lines, uploaded
\* when no line's bean is short, takes off each line's bean exactly
\* round(Q * 1.2 * ratio / 100, 3).
C17_SaleDeductsRoundedShare ==
  [][\A row \in DatedRows :
       LET recipe == RecipeInForce(row.product, row.date)
       IN (/\ recipe # <<>>
           /\ row.quantity > 0
           /\ Shortages(recipe, row.quantity) = <<>>
           /\ btn_upload_sales(<< row >>))
            => \A b \in Beans :
                 Stock'[b] = Stock[b] - Shares(recipe, row.quantity)[b]]_vars

\* C18: every recipe with lines that the resolver returns, for any product
\* and any date or none, has ratios that sum to 100.
C18_ResolvedRatiosSumTo100 ==
  \A q \in ResolveInputs :
    \A res \in Resolved(q.product_name, q.sale_date) :
      (~res.raised /\ res.recipes # <<>>) => SumRatio(res.recipes) = 100

\* ---------------------------------------------------- validation claims
ValidSale(in) == in.product # "" /\ in.quantity > 0 /\ in.unit_price > 0

\* a sheet row with an empty date cell or a non-positive quantity or price
InvalidRow(row) == row.date = NoDate \/ row.quantity <= 0 \/ row.price <= 0

C20_LogAppendOnly ==
  [][/\ Len(inventory_transactions') >= Len(inventory_transactions)
     /\ \A i \in DOMAIN inventory_transactions :
          inventory_transactions'[i] = inventory_transactions[i]]_vars

\* C20 witness: the log holds a purchase's entry, later entries of a sale
\* deletion or edit, and last the entry of that purchase's deletion.
C20_LogKeptThroughDeletions ==
  /\ Len(inventory_transactions) >= 3
  /\ last.op = "purchase_delete_btn"
  /\ LET n == Len(inventory_transactions)
     IN /\ inventory_transactions[n].transaction_type = "purchase_delete"
        /\ \E i \in 1..(n - 1) :
             /\ inventory_transactions[i].transaction_type = "bean_purchase"
             /\ inventory_transactions[i].reference_id
                  = inventory_transactions[n].reference_id
        /\ \E i \in 1..(n - 1) :
             inventory_transactions[i].transaction_type
               \in {"sale_delete", "sale_edit"}

\* ---------------------------------------------------------------- C30
\* C30: when no session is inside a stock update any more, every bean's
\* balance is the sum of the changes the sessions' completed updates carried
\* (the store starts without balances): no update is lost.
C30_NoUpdateLost ==
  (\A s \in Sessions : sessions[s].pc = "idle")
    => \A b \in Beans :
         Stock[b] = sessions["s1"].applied[b] + sessions["s2"].applied[b]

\* ---------------------------------------------------------------- C21
\* sum(quantity * unit price) / sum(quantity) over the bean's purchases dated
\* on or before the cutoff; zero when there is none
ExpectedPrice(bean, cutoff) ==
  LET mine == SelectSeq(green_bean_purchases, LAMBDA p :
                p.bean = bean /\ p.purchase_date <= cutoff)
  IN IF SumQuantity(mine) = 0 THEN Fraction(0, 1)
     ELSE Fraction(SumAmount(mine), SumQuantity(mine))

SameFraction(a, b) == a.num * b.den = b.num * a.den

\* C21: for every bean that has been purchased and every month, the price
\* the profit report obtains for the bean as of the end of that month is the
\* quantity-weighted mean of the purchases dated up to that day, and the
\* price the stock report shows is that mean over all purchases.
C21_WeightedAveragePrice ==
  \A b \in Beans :
    (\E p \in Range(green_bean_purchases) : p.bean = b) =>
      /\ SameFraction(weighted_avg_price(green_bean_purchases, b),
                      ExpectedPrice(b, MaxDate))
      /\ \A d \in Dates :
           LET res == bean_price(green_bean_purchases, b, MonthOf(d))
           IN /\ ~res.raised
              /\ SameFraction(res.price, ExpectedPrice(b, MonthEnd(MonthOf(d))))

\* ---------------------------------------------------------------- C22
\* the sales of a period, and what the profit page reported for it
SalesIn(start_date, end_date) ==
  { r \in Range(product_sales) :
      start_date <= r.sale_date /\ r.sale_date <= end_date }

\* the recipe of a product as of a date: the lines of the latest qualifying
\* master-BOM assignment, else the legacy version in force
RecipeAsOf(product_name, sale_date) ==
  LET ids == product_result(products, product_name)
      qualifying == UNION { QualifyingAssignments(i, sale_date) : i \in ids }
  IN IF qualifying # {}
     THEN get_master_bom_recipe(master_bom_recipes,
            (CHOOSE h \in LatestOf(qualifying) : TRUE).master_bom_id)
     ELSE RecipeInForce(product_name, sale_date)

\* C22: a profit report over a period that holds sales completes, and the
\* recipe lines it costs for each sale of the period are the lines of the
\* one version in effect on that sale's own date.
C22_CostUsesRecipeOfSaleDate ==
  [][\A start_date \in Dates, end_date \in Dates :
       (/\ profit_report(start_date, end_date)
        /\ SalesIn(start_date, end_date) # {})
         => /\ ~last'.failed
            /\ \A r \in SalesIn(start_date, end_date) :
                 ToLines(recipe_of(blend_recipes, r.product_name))
                   = RecipeAsOf(r.product_name, r.sale_date)]_vars

\* ---------------------------------------------------------------- C23
\* C23: a profit report over a period that holds sales completes with one
\* row for each month of the period that has sales, and in every row
\* cogs = bean_cost + variable_cost, gross_profit = revenue - cogs,
\* gross_margin = gross_profit / revenue * 100, and gross_margin is zero
\* exactly when revenue is zero.
C23_ProfitRowsAddUp ==
  [][\A start_date \in Dates, end_date \in Dates :
       (/\ profit_report(start_date, end_date)
        /\ SalesIn(start_date, end_date) # {})
         => LET profit_data == last'.messages[1].shortages
            IN /\ ~last'.failed
               /\ \A m \in { MonthOf(r.sale_date) :
                               r \in SalesIn(start_date, end_date) } :
                    \E i \in DOMAIN profit_data : profit_data[i].month = m
               /\ \A i \in DOMAIN profit_data :
                    LET row == profit_data[i]
                    IN /\ row.cogs = row.bean_cost + row.variable_cost
                       /\ row.gross_profit = row.revenue - row.cogs
                       /\ row.revenue # 0 =>
                            row.gross_margin * row.revenue
                              = row.gross_profit * 100
                       /\ row.gross_margin = 0 <=> row.revenue = 0]_vars

C27_UnlinkKeepsPastRecipes ==
  [][\A selected_products \in SUBSET ProductNames, e \in Dates :
       btn_apply_match(selected_products, Unlink, e)
         => /\ product_bom_history' = product_bom_history
            /\ \A p \in selected_products, d \in Dates :
                 \A res \in Resolved(p, d)' :
                   ~res.raised /\ res \in Resolved(p, d)]_vars

\* ---------------------------------------------------------------- C25
\* a product and date whose recipe resolves through a master-BOM assignment
ViaMasterBom(product_name, sale_date) ==
  \E i \in product_result(products, product_name) :
    QualifyingAssignments(i, sale_date) # {}

\* C25: for a sale whose product resolves through a master-BOM assignment on
\* the sale's date, deleting the sale adds back the shares of that master
\* BOM's lines, and editing it logs restores over that master BOM's lines
\* followed by deductions over the recipe resolved for the new values.
C25_EditDeleteUseMasterBom ==
  [][/\ \A r \in Range(product_sales) :
          (/\ ViaMasterBom(r.product_name, r.sale_date)
           /\ sale_delete_btn(r.id))
            => \A b \in Beans :
                 Stock'[b] = Stock[b]
                   + Shares(RecipeAsOf(r.product_name, r.sale_date),
                            r.quantity_kg)[b]
     /\ \A r \in Range(product_sales), in \in SaleEditInputs :
          (/\ ViaMasterBom(r.product_name, r.sale_date)
           /\ sale_edit_btn(r.id, in.date, in.product, in.quantity,
                            in.unit_price, NoFail))
            => inventory_transactions' = inventory_transactions
                 \o Movements(RecipeAsOf(r.product_name, r.sale_date),
                              r.quantity_kg, 1, "sale_edit", r.id)
                 \o Movements(RecipeAsOf(in.product, in.date), in.quantity,
                              0 - 1, "sale_edit", r.id)]_vars

\* ---------------------------------------------------------------- C24
ProductNamesOf(prods) == { r.product_name : r \in Range(prods) }

\* C24: an extraction ends with its success message, every name of the
\* batch that was new is registered after it, and the rows that existed
\* are as they were.
C24_DuplicateSkipsOnlyItsRow ==
  [][\A unique_products \in ExtractInputs :
       btn_extract_products(unique_products)
         => /\ last'.messages = << Msg("success", <<>>) >>
            /\ Range(unique_products) \subseteq ProductNamesOf(products')
            /\ \A i \in DOMAIN products : products'[i] = products[i]]_vars

\* ---------------------------------------------------------------- C28
\* per bean, the grams the recorded rows of an upload took, from the
\* consumption noted with each recorded sale
RECURSIVE RecordedConsumption(_, _, _)
RecordedConsumption(recorded, cons, bean) ==
  IF recorded = <<>> THEN 0
  ELSE (IF Head(recorded) # 0 THEN cons[Head(recorded)][bean] ELSE 0)
       + RecordedConsumption(Tail(recorded), cons, bean)

====
